---- MODULE Spec2Model ----
(***************************************************************************)
(* A model of the QDBMP filter (src/qdbmp.c): the little-endian field      *)
(* readers and writers, ReadHeader, QDBMP_configure_pid and QDBMP_process. *)
(*                                                                         *)
(* A BMP UINT is a 32-bit unsigned value.  It is kept as its two 16-bit    *)
(* halves [hi, lo] (value = hi * 2^16 + lo), so that 32-bit arithmetic is  *)
(* exact: products are reduced modulo 2^32 as the C arithmetic does.       *)
(* A USHORT is a number in 0..65535, a UCHAR a number in 0..255.           *)
(*                                                                         *)
(* What the model takes from the environment: a packet holds at least one  *)
(* byte, so that fmemopen gives a stream; gf_filter_pck_new_alloc gives a  *)
(* packet (the code does not test its result); UINT is 32 bits wide, as    *)
(* the comment in ReadUINT says and as it is in the filter's 32-bit build. *)
(***************************************************************************)
EXTENDS Integers, Sequences, FiniteSets

VARIABLES
    ctx,                  \* GF_QDBMPCtx: [ipid, opid], TRUE when the pid is set
    pixfmt,               \* GF_PROP_PID_PIXFMT of the output pid
    data,                 \* bytes of the packet / source the last call read
    f,                    \* read cursor of the memory stream over data
    bmp,                  \* bmp->Header as the last call left it
    rhStatus,             \* what ReadHeader returned in the last call
    ret,                  \* what the last QDBMP_process call returned
    BMP_LAST_ERROR_CODE,  \* the static last-error code
    palettesize,          \* value of the local palettesize the call used
    paletteRead,          \* bytes the call's palette fread consumed
    dst,                  \* the call's output packet: [state, size, output]
    dims,                 \* WIDTH, HEIGHT, STRIDE properties of the output pid
    inputDropped,         \* the call dropped the input packet
    openStreams,          \* fmemopen streams not yet fclosed
    liveBmp,              \* BMP structs not yet freed
    livePalette,          \* palette buffers not yet freed
    unsentPackets,        \* output packets allocated and never sent
    opidEos               \* end of stream was signalled on the output pid

vars == << ctx, pixfmt, data, f, bmp, rhStatus, ret, BMP_LAST_ERROR_CODE,
           palettesize, paletteRead, dst, dims, inputDropped,
           openStreams, liveBmp, livePalette, unsentPackets, opidEos >>

(***************************************************************************)
(* Bounds of the model.                                                    *)
(***************************************************************************)
\* Largest width and height of the ordinary test images.
MaxDim == 2
\* QDBMP_process is not called again once this many streams have leaked.
MaxLeaked == 1

(***************************************************************************)
(* Program constants.                                                      *)
(***************************************************************************)
BMP_PALETTE_SIZE_8bpp == 256 * 4
BMP_PALETTE_SIZE_4bpp == 16 * 4
\* 0x4D42, the magic "BM" read as a little-endian USHORT
BMP_MAGIC == 19778
\* the only HeaderSize accepted
BMP_INFO_HEADER_SIZE == 40
\* bytes per output pixel (RGBA)
OutBpp == 4

TwoTo16 == 65536

\* An uninitialised byte of a buffer, and an unassigned header field.
Uninit == -1

U32(n) == [hi |-> n \div TwoTo16, lo |-> n % TwoTo16]
UninitU32 == [hi |-> Uninit, lo |-> Uninit]
\* The number a UINT holds; computable when it is below 2^31.
ToNat(u) == u.hi * TwoTo16 + u.lo

Min(a, b) == IF a < b THEN a ELSE b

(***************************************************************************)
(* 32-bit unsigned multiplication.  Mul16 is the exact 32-bit product of   *)
(* two 16-bit numbers, by halves; MulWide the exact 64-bit product of two  *)
(* UINTs as four 16-bit limbs, least significant first.  The C product of  *)
(* two UINTs keeps the low 32 bits.                                        *)
(***************************************************************************)
Mul16(a, b) ==
    LET p0 == a * (b % 256)
        p1 == a * (b \div 256)
        s  == p0 + (p1 % 256) * 256
    IN  [lo |-> s % TwoTo16, hi |-> (s \div TwoTo16) + (p1 \div 256)]

MulWide(a, b) ==
    LET p00 == Mul16(a.lo, b.lo)
        p01 == Mul16(a.lo, b.hi)
        p10 == Mul16(a.hi, b.lo)
        p11 == Mul16(a.hi, b.hi)
        s1  == p00.hi + p01.lo + p10.lo
        s2  == p01.hi + p10.hi + p11.lo + (s1 \div TwoTo16)
    IN  << p00.lo, s1 % TwoTo16, s2 % TwoTo16, p11.hi + (s2 \div TwoTo16) >>

MulU32(a, b) ==
    LET w == MulWide(a, b) IN [hi |-> w[2], lo |-> w[1]]

(***************************************************************************)
(* The memory stream: fread of n bytes at cursor pos of the bytes d reads  *)
(* what is left, up to n, and advances the cursor by what it read.         *)
(***************************************************************************)
Fread(d, pos, n) ==
    LET k == Min(n, Len(d) - pos)
    IN  [bytes |-> SubSeq(d, pos + 1, pos + k), n |-> k, pos |-> pos + k]

(***************************************************************************)
(* ReadUINT, ReadUSHORT: one fread of a whole field, then the field's      *)
(* value from its bytes, least significant byte first.                     *)
(***************************************************************************)
ReadUINT_BigEndian(d, pos) ==
    LET r == Fread(d, pos, 4)
    IN  IF r.n # 4 THEN [ok |-> FALSE, x |-> UninitU32, pos |-> r.pos]
        ELSE [ok |-> TRUE,
              x |-> [hi |-> r.bytes[1] * 256 + r.bytes[2],
                     lo |-> r.bytes[3] * 256 + r.bytes[4]],
              pos |-> r.pos]

ReadUINT(d, pos) ==
    LET r == Fread(d, pos, 4)
    IN  IF r.n # 4 THEN [ok |-> FALSE, x |-> UninitU32, pos |-> r.pos]
        ELSE [ok |-> TRUE,
              x |-> [hi |-> r.bytes[4] * 256 + r.bytes[3],
                     lo |-> r.bytes[2] * 256 + r.bytes[1]],
              pos |-> r.pos]

ReadUSHORT(d, pos) ==
    LET r == Fread(d, pos, 2)
    IN  IF r.n # 2 THEN [ok |-> FALSE, x |-> Uninit, pos |-> r.pos]
        ELSE [ok |-> TRUE, x |-> r.bytes[2] * 256 + r.bytes[1], pos |-> r.pos]

(***************************************************************************)
(* WriteUINT, WriteUSHORT: the bytes of a field, least significant first.  *)
(***************************************************************************)
WriteUINT(x) ==
    << x.lo % 256, x.lo \div 256, x.hi % 256, x.hi \div 256 >>

WriteUSHORT(x) == << x % 256, x \div 256 >>

(***************************************************************************)
(* ReadHeader: the sixteen fields in the order the code reads them, each   *)
(* by ReadUSHORT (2) or ReadUINT (4); the first short read ends the call   *)
(* with BMP_IO_ERROR and leaves the later fields unassigned.               *)
(***************************************************************************)
HeaderFields ==
    << <<"Magic", 2>>, <<"FileSize", 4>>, <<"Reserved1", 2>>,
       <<"Reserved2", 2>>, <<"DataOffset", 4>>, <<"HeaderSize", 4>>,
       <<"Width", 4>>, <<"Height", 4>>, <<"Planes", 2>>,
       <<"BitsPerPixel", 2>>, <<"CompressionType", 4>>,
       <<"ImageDataSize", 4>>, <<"HPixelsPerMeter", 4>>,
       <<"VPixelsPerMeter", 4>>, <<"ColorsUsed", 4>>,
       <<"ColorsRequired", 4>> >>

FieldNames == { HeaderFields[i][1] : i \in 1..Len(HeaderFields) }

FieldSize(name) ==
    HeaderFields[CHOOSE i \in 1..Len(HeaderFields) : HeaderFields[i][1] = name][2]

\* A freshly allocated BMP: no field assigned yet.
NewBmp ==
    [n \in FieldNames |-> IF FieldSize(n) = 2 THEN Uninit ELSE UninitU32]

RECURSIVE ReadFields(_, _, _, _)
ReadFields(d, i, pos, hdr) ==
    IF i > Len(HeaderFields)
    THEN [status |-> "BMP_OK", pos |-> pos, hdr |-> hdr]
    ELSE LET name == HeaderFields[i][1]
             r == IF HeaderFields[i][2] = 2 THEN ReadUSHORT(d, pos)
                                            ELSE ReadUINT(d, pos)
         IN  IF ~r.ok
             THEN [status |-> "BMP_IO_ERROR", pos |-> r.pos, hdr |-> hdr]
             ELSE ReadFields(d, i + 1, r.pos, [hdr EXCEPT ![name] = r.x])

ReadHeader(d) == ReadFields(d, 1, 0, NewBmp)

(***************************************************************************)
(* The supported variants and the size of the palette of each depth        *)
(* (QDBMP_process, the palettesize assignments and the variant check).     *)
(***************************************************************************)
SupportedDepth(bpp) == bpp = 32 \/ bpp = 24 \/ bpp = 8 \/ bpp = 4

\* The check of the magic, folded into the ReadHeader test of the code.
MagicOk(hdr) == hdr.Magic = BMP_MAGIC

VariantSupported_NoHeaderSizeCheck(hdr) ==
    /\ SupportedDepth(hdr.BitsPerPixel)
    /\ hdr.CompressionType = U32(0)

VariantSupported(hdr) ==
    /\ SupportedDepth(hdr.BitsPerPixel)
    /\ hdr.CompressionType = U32(0)
    /\ hdr.HeaderSize = U32(BMP_INFO_HEADER_SIZE)

\* palettesize is assigned for 8 and 4 bpp only: for any other depth the
\* local keeps whatever the stack held (garbage).
PaletteSizeOf(bpp, garbage) ==
    IF bpp = 8 THEN BMP_PALETTE_SIZE_8bpp
    ELSE IF bpp = 4 THEN BMP_PALETTE_SIZE_4bpp
    ELSE garbage

\* The size handed to gf_filter_pck_new_alloc and to fread: Width*Height*4
\* in 32-bit unsigned arithmetic.
OutputSize(hdr) == MulU32(MulU32(hdr.Width, hdr.Height), U32(OutBpp))

\* An output buffer of size bytes of which fread wrote the first ones.
Filled(bytes, size) ==
    [i \in 1..size |-> IF i <= Len(bytes) THEN bytes[i] ELSE Uninit]

NoPacket == [state |-> "none", size |-> U32(0), output |-> << >>]

(***************************************************************************)
(* QDBMP_process on a packet holding the bytes d.  garbage is the value    *)
(* the unassigned local palettesize happens to hold; oom names the         *)
(* allocation that fails, if one does.  The result gives the value the     *)
(* call returns and everything it leaves behind:                           *)
(*   err      the code stored in BMP_LAST_ERROR_CODE, "same" if none is    *)
(*   streams, bmps, palettes, packets                                      *)
(*            what the call acquired and did not release (0 or 1 each)     *)
(*   dst      the output packet: none, allocated (and not sent), or sent   *)
(*   rgbx, props, dropped  PIXFMT was set to RGBX; WIDTH, HEIGHT, STRIDE   *)
(*            were set; the input packet was dropped                       *)
(***************************************************************************)
ProcessStart ==
    [ret |-> "GF_OK", err |-> "same", f |-> 0, hdr |-> NewBmp,
     rhStatus |-> "none", palettesize |-> Uninit, paletteRead |-> 0,
     dst |-> NoPacket, rgbx |-> FALSE, props |-> FALSE, dropped |-> FALSE,
     streams |-> 0, bmps |-> 0, palettes |-> 0, packets |-> 0]

\* The switch on the depth and what follows it, once the output packet of
\* size bytes is allocated.  r is the call's record so far, pos the cursor.
DecodePixels(d, r, pos, size32, hasPalette) ==
    LET depth == r.hdr.BitsPerPixel
        size  == ToNat(size32)
        rd    == Fread(d, pos, size)
    IN  IF depth = 24 \/ depth = 8
        THEN \* return GF_NOT_SUPPORTED: nothing is closed, freed or sent
             [r EXCEPT !.ret = "GF_NOT_SUPPORTED", !.f = pos,
                       !.dst = [state |-> "allocated", size |-> size32,
                                output |-> Filled(<< >>, size)],
                       !.streams = 1, !.bmps = 1,
                       !.palettes = IF hasPalette THEN 1 ELSE 0,
                       !.packets = 1]
        ELSE IF depth = 32
        THEN [r EXCEPT !.ret = "GF_OK", !.f = rd.pos, !.rgbx = TRUE,
                       !.dst = [state |-> "sent", size |-> size32,
                                output |-> Filled(rd.bytes, size)],
                       !.props = TRUE, !.dropped = TRUE]
        ELSE \* no case of the switch: the buffer is sent as allocated
             [r EXCEPT !.ret = "GF_OK", !.f = pos,
                       !.dst = [state |-> "sent", size |-> size32,
                                output |-> Filled(<< >>, size)],
                       !.props = TRUE, !.dropped = TRUE]

Process(d, garbage, oom) ==
    LET r0 == ProcessStart
        rh == ReadHeader(d)
        r1 == [r0 EXCEPT !.f = rh.pos, !.hdr = rh.hdr, !.rhStatus = rh.status]
        ps == PaletteSizeOf(rh.hdr.BitsPerPixel, garbage)
        pr == Fread(d, rh.pos, ps)
        r2 == [r1 EXCEPT !.palettesize = ps]
    IN  IF oom = "bmp"
        THEN [r0 EXCEPT !.ret = "GF_OUT_OF_MEM"]
        ELSE IF rh.status # "BMP_OK" \/ ~MagicOk(rh.hdr)
        THEN [r1 EXCEPT !.ret = "GF_CORRUPTED_DATA",
                        !.err = "BMP_FILE_INVALID"]
        ELSE IF ~VariantSupported(rh.hdr)
        THEN [r1 EXCEPT !.ret = "GF_NOT_SUPPORTED",
                        !.err = "BMP_FILE_NOT_SUPPORTED"]
        ELSE IF ps > 0 /\ oom = "palette"
        THEN [r2 EXCEPT !.ret = "GF_OUT_OF_MEM",
                        !.err = "BMP_OUT_OF_MEMORY"]
        ELSE IF ps > 0 /\ pr.n # ps
        THEN [r2 EXCEPT !.ret = "GF_CORRUPTED_DATA",
                        !.err = "BMP_FILE_INVALID",
                        !.f = pr.pos, !.paletteRead = pr.n]
        ELSE LET pos == IF ps > 0 THEN pr.pos ELSE rh.pos
                 r3  == [r2 EXCEPT !.paletteRead = pos - rh.pos]
             IN  DecodePixels(d, r3, pos, OutputSize(rh.hdr), ps > 0)

(***************************************************************************)
(* The inputs: BMP files built field by field with WriteUSHORT and         *)
(* WriteUINT, followed by a palette and pixel bytes that are all distinct  *)
(* from their neighbours, so that a byte out of place shows.               *)
(***************************************************************************)
MkHeader(magic, hsize, w, h, bpp, comp) ==
    [Magic |-> magic, FileSize |-> [hi |-> 32880, lo |-> 24656],
     Reserved1 |-> 4386, Reserved2 |-> 13124,
     DataOffset |-> [hi |-> 258, lo |-> 772], HeaderSize |-> U32(hsize),
     Width |-> w, Height |-> h, Planes |-> 1, BitsPerPixel |-> bpp,
     CompressionType |-> U32(comp),
     ImageDataSize |-> [hi |-> 1286, lo |-> 1800],
     HPixelsPerMeter |-> U32(2835), VPixelsPerMeter |-> U32(2834),
     ColorsUsed |-> [hi |-> 43981, lo |-> 61185], ColorsRequired |-> U32(0)]

HeaderBytes(h) ==
    WriteUSHORT(h.Magic) \o WriteUINT(h.FileSize)
      \o WriteUSHORT(h.Reserved1) \o WriteUSHORT(h.Reserved2)
      \o WriteUINT(h.DataOffset) \o WriteUINT(h.HeaderSize)
      \o WriteUINT(h.Width) \o WriteUINT(h.Height)
      \o WriteUSHORT(h.Planes) \o WriteUSHORT(h.BitsPerPixel)
      \o WriteUINT(h.CompressionType) \o WriteUINT(h.ImageDataSize)
      \o WriteUINT(h.HPixelsPerMeter) \o WriteUINT(h.VPixelsPerMeter)
      \o WriteUINT(h.ColorsUsed) \o WriteUINT(h.ColorsRequired)

PalByte(i) == (i * 3 + 1) % 256
PixByte(i) == (i * 7 + 9) % 256

Body(palLen, pixLen) ==
    [i \in 1..palLen |-> PalByte(i)] \o [i \in 1..pixLen |-> PixByte(i)]

\* Bytes of one source row: the pixels, padded to a multiple of four bytes.
SourceStride(w, bpp) == ((w * bpp + 31) \div 32) * 4

ValidHeader(w, h, bpp) == MkHeader(BMP_MAGIC, BMP_INFO_HEADER_SIZE, w, h, bpp, 0)

ImagePacket(w, h, bpp, cut) ==
    HeaderBytes(ValidHeader(U32(w), U32(h), bpp))
      \o Body(PaletteSizeOf(bpp, 0), SourceStride(w, bpp) * h - cut)

\* Images whole or one pixel byte short: 32-bpp images of one row and of
\* MaxDim rows, and one-row images of the other supported depths.
ImagePackets ==
    { ImagePacket(w, h, 32, cut) :
        w \in 1..MaxDim, h \in {1, MaxDim}, cut \in {0, 1} }
    \cup
    { ImagePacket(w, 1, bpp, cut) :
        w \in 1..MaxDim, bpp \in {24, 8, 4}, cut \in {0, 1} }

\* Indexed images whose palette is one byte short.
ShortPalettePackets ==
    { HeaderBytes(ValidHeader(U32(1), U32(1), bpp))
        \o Body(PaletteSizeOf(bpp, 0) - 1, 0) : bpp \in {8, 4} }

\* Headers breaking any subset of the four format rules.
RejectedPackets ==
    { HeaderBytes(MkHeader(m, hs, U32(1), U32(1), bpp, c)) \o Body(0, 4) :
      m \in {BMP_MAGIC, 19779}, hs \in {BMP_INFO_HEADER_SIZE, 12},
      bpp \in {32, 16}, c \in {0, 1} }

\* Files that end inside the header.
ShortPackets ==
    { SubSeq(HeaderBytes(ValidHeader(U32(1), U32(1), 32)), 1, n) : n \in {1, 53} }

\* A 32-bpp header whose Width*Height*4 is 2^32 + 4.
HugeWidth == [hi |-> 16384, lo |-> 1]
HugePackets ==
    { HeaderBytes(ValidHeader(HugeWidth, U32(1), 32)) \o Body(0, 8) }

Packets ==
    ImagePackets \cup ShortPalettePackets \cup RejectedPackets
      \cup ShortPackets \cup HugePackets

\* Values the unassigned palettesize may hold.
Garbage == {0, 4, 4096}
OomChoices == {"none", "bmp", "palette"}

(***************************************************************************)
(* The filter.                                                             *)
(***************************************************************************)
NoDims == [WIDTH |-> UninitU32, HEIGHT |-> UninitU32, STRIDE |-> UninitU32]

Init ==
    /\ ctx = [ipid |-> FALSE, opid |-> FALSE]
    /\ pixfmt = "unset"
    /\ data = << >>
    /\ f = 0
    /\ bmp = NewBmp
    /\ rhStatus = "none"
    /\ ret = "none"
    /\ BMP_LAST_ERROR_CODE = "BMP_OK"
    /\ palettesize = Uninit
    /\ paletteRead = 0
    /\ dst = NoPacket
    /\ dims = NoDims
    /\ inputDropped = FALSE
    /\ openStreams = 0
    /\ liveBmp = 0
    /\ livePalette = 0
    /\ unsentPackets = 0
    /\ opidEos = FALSE

\* QDBMP_configure_pid with is_remove false and matching capabilities.
QDBMP_configure_pid ==
    /\ ctx' = [ipid |-> TRUE, opid |-> TRUE]
    /\ pixfmt' = "GF_PIXEL_RGB"
    /\ UNCHANGED << data, f, bmp, rhStatus, ret, BMP_LAST_ERROR_CODE,
                    palettesize, paletteRead, dst, dims, inputDropped,
                    openStreams, liveBmp, livePalette, unsentPackets, opidEos >>

\* The state a QDBMP_process call leaves, from the record of what it did.
Commit(d, r) ==
    /\ data' = d
    /\ f' = r.f
    /\ bmp' = r.hdr
    /\ rhStatus' = r.rhStatus
    /\ ret' = r.ret
    /\ BMP_LAST_ERROR_CODE' =
          IF r.err = "same" THEN BMP_LAST_ERROR_CODE ELSE r.err
    /\ palettesize' = r.palettesize
    /\ paletteRead' = r.paletteRead
    /\ dst' = r.dst
    /\ pixfmt' = IF r.rgbx THEN "GF_PIXEL_RGBX" ELSE pixfmt
    /\ dims' = IF r.props
               THEN [WIDTH |-> r.hdr.Width, HEIGHT |-> r.hdr.Height,
                     STRIDE |-> MulU32(U32(OutBpp), r.hdr.Width)]
               ELSE dims
    /\ inputDropped' = r.dropped
    /\ openStreams' = openStreams + r.streams
    /\ liveBmp' = liveBmp + r.bmps
    /\ livePalette' = livePalette + r.palettes
    /\ unsentPackets' = unsentPackets + r.packets

\* What a call can do with a packet on the input pid: every packet, with
\* every value of the unassigned local and every failing allocation.
Outcomes ==
    { << pck, Process(pck, garbage, oom) >> :
      pck \in Packets, garbage \in Garbage, oom \in OomChoices }

\* gf_filter_pid_get_packet gives a packet or none; once the input pid is
\* at end of stream it gives none, and gf_filter_pid_is_eos holds.
QDBMP_process ==
    /\ ctx.ipid
    /\ openStreams < MaxLeaked
    /\ UNCHANGED ctx
    /\ \E havePacket \in {FALSE} \cup {h \in {TRUE} : ~opidEos} :
         IF ~havePacket
         THEN \* no packet on the input pid
              \E eos \in {TRUE} \cup {e \in {FALSE} : ~opidEos} :
                 /\ Commit(<< >>, [ProcessStart EXCEPT
                                     !.ret = IF eos THEN "GF_EOS" ELSE "GF_OK"])
                 /\ opidEos' = (opidEos \/ (eos /\ ctx.opid))
         ELSE \E o \in Outcomes :
                 /\ Commit(o[1], o[2])
                 /\ UNCHANGED opidEos

Next == QDBMP_configure_pid \/ QDBMP_process

Spec == Init /\ [][Next]_vars

(***************************************************************************)
(* ReadHeader on its own: a source is opened at offset 0 over some prefix  *)
(* of a file, and ReadHeader is called on it.                              *)
(***************************************************************************)
HeaderSamples ==
    { HeaderBytes(ValidHeader(U32(2), U32(2), 32)) \o Body(0, 4),
      HeaderBytes(MkHeader(513, 12, HugeWidth, [hi |-> 65535, lo |-> 65280],
                           16, 3)) \o Body(0, 4) }

HeaderSources ==
    { SubSeq(s, 1, n) : s \in HeaderSamples, n \in 1..58 }

OpenSource ==
    /\ rhStatus # "none" \/ data = << >>
    /\ \E s \in HeaderSources : data' = s
    /\ f' = 0
    /\ bmp' = NewBmp
    /\ rhStatus' = "none"
    /\ UNCHANGED << ctx, pixfmt, ret, BMP_LAST_ERROR_CODE, palettesize,
                    paletteRead, dst, dims, inputDropped, openStreams,
                    liveBmp, livePalette, unsentPackets, opidEos >>

CallReadHeader ==
    /\ rhStatus = "none" /\ data # << >>
    /\ LET rh == ReadHeader(data)
       IN  /\ f' = rh.pos
           /\ bmp' = rh.hdr
           /\ rhStatus' = rh.status
    /\ UNCHANGED << ctx, pixfmt, data, ret, BMP_LAST_ERROR_CODE, palettesize,
                    paletteRead, dst, dims, inputDropped, openStreams,
                    liveBmp, livePalette, unsentPackets, opidEos >>

HeaderNext == OpenSource \/ CallReadHeader

HeaderSpec == Init /\ [][HeaderNext]_vars

(***************************************************************************)
(* The file layout, for stating the properties: each header field's        *)
(* documented offset and size, and its little-endian value in the bytes d  *)
(* (which must hold the whole header).                                     *)
(***************************************************************************)
HeaderLen == 54

DocLayout ==
    [Magic |-> <<0, 2>>, FileSize |-> <<2, 4>>, Reserved1 |-> <<6, 2>>,
     Reserved2 |-> <<8, 2>>, DataOffset |-> <<10, 4>>,
     HeaderSize |-> <<14, 4>>, Width |-> <<18, 4>>, Height |-> <<22, 4>>,
     Planes |-> <<26, 2>>, BitsPerPixel |-> <<28, 2>>,
     CompressionType |-> <<30, 4>>, ImageDataSize |-> <<34, 4>>,
     HPixelsPerMeter |-> <<38, 4>>, VPixelsPerMeter |-> <<42, 4>>,
     ColorsUsed |-> <<46, 4>>, ColorsRequired |-> <<50, 4>>]

LittleEndian16(d, off) == d[off + 1] + 256 * d[off + 2]

DocField(d, name) ==
    LET off == DocLayout[name][1]
    IN  IF DocLayout[name][2] = 2 THEN LittleEndian16(d, off)
        ELSE [hi |-> LittleEndian16(d, off + 2), lo |-> LittleEndian16(d, off)]

\* Width*Height*4 does not fit 32 bits.
TooLarge(w, h) ==
    LET p == MulWide(w, h)
        q == MulWide([hi |-> p[2], lo |-> p[1]], U32(OutBpp))
    IN  p[3] # 0 \/ p[4] # 0 \/ q[3] # 0 \/ q[4] # 0

\* The last step was a QDBMP_process call that got a packet and whose
\* allocations all succeeded.
Decoding == data # << >> /\ ret \notin {"none", "GF_OUT_OF_MEM"}

HasHeader(d) == Len(d) >= HeaderLen

\* The four format rules, on the bytes.
RuleMagic(d) == DocField(d, "Magic") = BMP_MAGIC
RuleHeaderSize(d) == DocField(d, "HeaderSize") = U32(BMP_INFO_HEADER_SIZE)
RuleBitDepth(d) == DocField(d, "BitsPerPixel") \in {32, 24, 8, 4}
RuleCompression(d) == DocField(d, "CompressionType") = U32(0)

PassesValidation(d) ==
    /\ HasHeader(d)
    /\ RuleMagic(d) /\ RuleHeaderSize(d)
    /\ RuleBitDepth(d) /\ RuleCompression(d)

DocPaletteSize(bpp) == IF bpp = 8 THEN 1024 ELSE IF bpp = 4 THEN 64 ELSE 0

PaletteComplete(d) ==
    Len(d) - HeaderLen >= DocPaletteSize(DocField(d, "BitsPerPixel"))

\* Bytes of pixel data the image needs: row stride times height.
PixelBytesNeeded(d) ==
    SourceStride(ToNat(DocField(d, "Width")), DocField(d, "BitsPerPixel"))
      * ToNat(DocField(d, "Height"))

PixelBytesPresent(d) ==
    Len(d) - HeaderLen - DocPaletteSize(DocField(d, "BitsPerPixel"))

ValidComplete(d) ==
    /\ PassesValidation(d)
    /\ ~TooLarge(DocField(d, "Width"), DocField(d, "Height"))
    /\ PaletteComplete(d)
    /\ PixelBytesPresent(d) >= PixelBytesNeeded(d)

\* The unassigned palettesize happened to hold what a non-indexed image
\* needs: zero.
PaletteSizeAsIntended ==
    palettesize = DocPaletteSize(DocField(data, "BitsPerPixel"))

(***************************************************************************)
(* C8.  ReadHeader on a source at offset 0 returns BMP_OK exactly when the *)
(* source holds at least 54 bytes; then the cursor is at offset 54 and     *)
(* every header field is the little-endian value of its bytes at the       *)
(* documented offset; with fewer than 54 bytes it returns BMP_IO_ERROR.    *)
(* Checked under HeaderSpec.                                               *)
(***************************************************************************)
C8_ReadHeaderContract ==
    rhStatus # "none" =>
       /\ (rhStatus = "BMP_OK") <=> (Len(data) >= HeaderLen)
       /\ rhStatus = "BMP_OK" =>
             /\ f = HeaderLen
             /\ \A n \in DOMAIN DocLayout : bmp[n] = DocField(data, n)
       /\ Len(data) < HeaderLen => rhStatus = "BMP_IO_ERROR"

\* ReadHeader has read a whole header whose fields have distinct bytes,
\* the top bit of a UINT set among them.
C8_Witness ==
    /\ rhStatus = "BMP_OK"
    /\ Len(data) >= HeaderLen
    /\ bmp.FileSize = [hi |-> 32880, lo |-> 24656]
    /\ bmp.Height = [hi |-> 65535, lo |-> 65280]

(***************************************************************************)
(* C4.  The four format rules and the error a rejected header gets.        *)
(***************************************************************************)
\* The first rule the header breaks, in the order magic, header size, bit
\* depth, compression; "none" when it breaks none.
FirstViolation(d) ==
    IF ~RuleMagic(d) THEN "BadMagic"
    ELSE IF ~RuleHeaderSize(d) THEN "UnsupportedHeaderVariant"
    ELSE IF ~RuleBitDepth(d) THEN "UnsupportedBitDepth"
    ELSE IF ~RuleCompression(d) THEN "UnsupportedCompression"
    ELSE "none"

\* The last step was a call that read a whole header and rejected it.
Rejected ==
    /\ Decoding /\ rhStatus = "BMP_OK"
    /\ FirstViolation(data) # "none"

C1_EveryValidDepthDecoded ==
    (Decoding /\ ValidComplete(data) /\ PaletteSizeAsIntended) =>
       /\ ret = "GF_OK"
       /\ dst.state = "sent"
       /\ Len(dst.output) =
             ToNat(DocField(data, "Width")) * ToNat(DocField(data, "Height"))
               * OutBpp
       /\ \A i \in 1..Len(dst.output) : dst.output[i] # Uninit

(***************************************************************************)
(* C2.  For a valid 32-bpp input each output pixel is the source pixel's   *)
(* bytes reordered from blue-green-red-alpha to red-green-blue-alpha:      *)
(* output bytes (0,1,2,3) are source bytes (2,1,0,3).  The source pixel is *)
(* the one of the same column in the mirrored row or in the same row, so   *)
(* that the row order does not decide the property.                        *)
(***************************************************************************)
\* The last step decoded a whole, valid 32-bpp image and sent the result.
Decoded32 ==
    /\ Decoding /\ ValidComplete(data) /\ PaletteSizeAsIntended
    /\ DocField(data, "BitsPerPixel") = 32
    /\ ret = "GF_OK" /\ dst.state = "sent"

ImgWidth == ToNat(DocField(data, "Width"))
ImgHeight == ToNat(DocField(data, "Height"))

\* Byte k (0..3) of the source pixel at column x of stored row r.
SrcByte(x, r, k) == data[HeaderLen + (r * ImgWidth + x) * 4 + k + 1]
\* Byte k (0..3) of the output pixel at column x of output row y.
OutByte(x, y, k) == dst.output[(y * ImgWidth + x) * 4 + k + 1]

BgraToRgba == << 2, 1, 0, 3 >>

C2_ChannelsReordered ==
    Decoded32 =>
       \A x \in 0..(ImgWidth - 1), y \in 0..(ImgHeight - 1) :
          \E r \in {y, ImgHeight - 1 - y} :
             \A k \in 0..3 : OutByte(x, y, k) = SrcByte(x, r, BgraToRgba[k + 1])

(***************************************************************************)
(* C3.  Output row y of a decoded image of height h is produced from       *)
(* source row h-1-y.  Stated for 32-bpp images, the depth the decoder      *)
(* writes: the four bytes of each output pixel are, in some order, the     *)
(* four bytes of the source pixel of the same column in row h-1-y, so that *)
(* the channel order does not decide the property.                         *)
(***************************************************************************)
C3_RowsFlipped ==
    Decoded32 =>
       \A x \in 0..(ImgWidth - 1), y \in 0..(ImgHeight - 1) :
          { OutByte(x, y, k) : k \in 0..3 }
             = { SrcByte(x, ImgHeight - 1 - y, k) : k \in 0..3 }

(***************************************************************************)
(* C5.  When the source holds fewer pixel bytes after the header and the   *)
(* palette than row stride times height, the call does not return GF_OK    *)
(* and sends no output packet.                                             *)
(***************************************************************************)
TruncatedPixels(d) ==
    /\ PassesValidation(d)
    /\ ~TooLarge(DocField(d, "Width"), DocField(d, "Height"))
    /\ PaletteComplete(d)
    /\ PixelBytesPresent(d) < PixelBytesNeeded(d)

C5_TruncatedPixelsRejected ==
    (Decoding /\ TruncatedPixels(data) /\ PaletteSizeAsIntended) =>
       (ret # "GF_OK" /\ dst.state # "sent")

(***************************************************************************)
(* C6.  All or nothing: a call that returns an error (corrupted data, not  *)
(* supported, out of memory) has allocated and sent no output packet.      *)
(***************************************************************************)
C6_NoPacketOnError ==
    ret \in {"GF_CORRUPTED_DATA", "GF_NOT_SUPPORTED", "GF_OUT_OF_MEM"} =>
       dst.state = "none"

(***************************************************************************)
(* C7.  A header whose Width*Height*4 exceeds 2^32-1 makes the call fail;  *)
(* no packet of the wrapped size (Width*Height*4 mod 2^32) is allocated.   *)
(***************************************************************************)
C7_NoWrappedAllocation ==
    (Decoding /\ PassesValidation(data)
       /\ TooLarge(DocField(data, "Width"), DocField(data, "Height"))) =>
       /\ ret # "GF_OK"
       /\ dst.state = "none"

(***************************************************************************)
(* C9.  The palette bytes consumed after the 54-byte header depend on the  *)
(* depth only: 1024 for 8 bpp, 64 for 4 bpp, 0 for 32 and 24 bpp.          *)
(***************************************************************************)
C9_PaletteBytesByDepth ==
    (Decoding /\ PassesValidation(data) /\ PaletteComplete(data)) =>
       paletteRead = DocPaletteSize(DocField(data, "BitsPerPixel"))

(***************************************************************************)
(* C10.  After any sequence of calls nothing a call acquired is still      *)
(* held: no stream is open, no BMP struct and no palette buffer is live.   *)
(***************************************************************************)
C10_NothingHeld ==
    openStreams = 0 /\ liveBmp = 0 /\ livePalette = 0

====
